---- MODULE Spec2Model ----
(***************************************************************************)
(* A model of pan_cached_dataset.py: the lazy, line-oriented parser of     *)
(* PanFileDataSet and the backend selection of PanCachedDataSet.           *)
(*                                                                         *)
(* A Python str is a sequence of characters; a character is a one-symbol   *)
(* TLA+ string.  The two marker literals and the seven label literals are  *)
(* single symbols (no operation of the program looks inside them).         *)
(* A Python value that may be None is a record [isNone, val].              *)
(***************************************************************************)
EXTENDS Integers, Sequences, FiniteSets, TLC

VARIABLES
    fs_exists,          \* os.path.exists(P) for the one path P of the model
    fs_lines,           \* the lines of the file at P (without line terminators)
    fs_accessed,        \* history: the program has called into the filesystem
    made,               \* which object the program has constructed so far
    ds,                 \* the fields of the PanFileDataSet
    cds,                \* the fields of the PanCachedDataSet
    remote_index,       \* history: the identifiers handed to pgpd.PanDataSet
    pc,                 \* per thread: position in the call in progress
    op,                 \* per thread: the public operation in progress
    state,              \* per thread: local `state` of _load
    description_state,  \* per thread: local `description_state` of _load
    skiprows,           \* per thread: local `skiprows` of _load
    ret,                \* per thread: outcome of the last finished call
    calls,              \* history: number of public calls started
    parse_runs          \* history: number of times _load opened the file

vars == << fs_exists, fs_lines, fs_accessed, made, ds, cds, remote_index, pc, op,
           state, description_state, skiprows, ret, calls, parse_runs >>

----------------------------------------------------------------------------
(* Bounds of the model *)

MaxLines == 4
MaxParseLines == 3
MaxHeader == 3
MaxCalls == 2
MaxKeywordLines == 4
MaxLabelled == 2
MaxBlock == 3

----------------------------------------------------------------------------
(* Python values *)

None == [isNone |-> TRUE, val |-> <<>>]
Some(x) == [isNone |-> FALSE, val |-> x]

TAB == "\t"
SP == " "
Whitespace == {TAB, SP}

START_MARKER == <<"/* DATA DESCRIPTION:">>
END_MARKER == <<"*/">>

(* str.strip(): drop leading and trailing whitespace *)
RECURSIVE LStrip(_)
LStrip(s) ==
    IF s # <<>> /\ Head(s) \in Whitespace THEN LStrip(Tail(s)) ELSE s

RECURSIVE RStrip(_)
RStrip(s) ==
    IF s # <<>> /\ s[Len(s)] \in Whitespace
    THEN RStrip(SubSeq(s, 1, Len(s) - 1))
    ELSE s

Strip(s) == RStrip(LStrip(s))

(* index of the first occurrence of character c in s, 0 when absent *)
Find(s, c) ==
    IF \E i \in 1..Len(s) : s[i] = c
    THEN CHOOSE i \in 1..Len(s) : s[i] = c /\ \A j \in 1..(i - 1) : s[j] # c
    ELSE 0

(* str.split(c, maxsplit=1) *)
SplitFirst(s, c) ==
    LET i == Find(s, c)
    IN  IF i = 0 THEN << s >>
        ELSE << SubSeq(s, 1, i - 1), SubSeq(s, i + 1, Len(s)) >>

(* str.split(c) *)
RECURSIVE Split(_, _)
Split(s, c) ==
    LET i == Find(s, c)
    IN  IF i = 0 THEN << s >>
        ELSE << SubSeq(s, 1, i - 1) >> \o Split(SubSeq(s, i + 1, Len(s)), c)

(* str(n) for n >= 0, as the f-string of line 148 formats it *)
Digit == << "0", "1", "2", "3", "4", "5", "6", "7", "8", "9" >>

RECURSIVE IntToStr(_)
IntToStr(n) ==
    IF n < 10 THEN << Digit[n + 1] >>
    ELSE IntToStr(n \div 10) \o << Digit[(n % 10) + 1] >>

----------------------------------------------------------------------------
(* class PanFileDataSet *)

(* PanFileDataSet.__init__ *)
Constructed ==
    [ header          |-> None,
      data            |-> None,
      loaded          |-> FALSE,
      columns         |-> None,
      citations       |-> None,
      parameters      |-> <<>>,
      keywords        |-> Some(<<>>),
      size            |-> None,
      license         |-> None,
      further_details |-> None,
      abstract        |-> None ]

(* line 145: h.split("[", maxsplit=1)[0].strip() *)
BaseName(h) == Strip(SplitFirst(h, "[")[1])

(* DedupStep with line 147 lost: the count of a repeated name stays at 2 *)
DedupStep_NoIncrement(acc, h) ==
    IF h \in DOMAIN acc.map
    THEN [ map     |-> [acc.map EXCEPT ![h] = 2],
           columns |-> Append(acc.columns, h \o <<"_">> \o IntToStr(2)) ]
    ELSE [ map     |-> acc.map @@ (h :> 1),
           columns |-> Append(acc.columns, h) ]

(* lines 146-151: one iteration of the loop over the raw header fields;
   acc = [map |-> columns_map, columns |-> self._columns] *)
DedupStep(acc, h) ==
    IF h \in DOMAIN acc.map
    THEN LET n == acc.map[h] + 1
         IN  [ map     |-> [acc.map EXCEPT ![h] = n],
               columns |-> Append(acc.columns, h \o <<"_">> \o IntToStr(n)) ]
    ELSE [ map     |-> acc.map @@ (h :> 1),
           columns |-> Append(acc.columns, h) ]

(* lines 142-151: the loop, from raw field i on *)
RECURSIVE DedupFrom(_, _, _)
DedupFrom(header, i, acc) ==
    IF i > Len(header) THEN acc
    ELSE DedupFrom(header, i + 1, DedupStep(acc, BaseName(header[i])))

Dedup(header) == DedupFrom(header, 1, [map |-> << >>, columns |-> << >>]).columns

(* lines 141-152: the header line *)
HeaderLine(d, line) ==
    LET header == Split(line, TAB)
    IN  [d EXCEPT !.header = Some(header), !.columns = Some(Dedup(header))]

(* LabelLine taking a label it does not know for the end of the open field *)
LabelLine_UnknownCloses(d, dstate, field, value) ==
    CASE field = <<"Citation:">> ->
            [ds |-> [d EXCEPT !.citations = Some(value)], dstate |-> "CITATION"]
      [] field = <<"Abstract:">> ->
            [ds |-> [d EXCEPT !.abstract = Some(value)], dstate |-> "ABSTRACT"]
      [] field = <<"Keyword(s):">> ->
            [ds |-> [d EXCEPT !.keywords = Some(Split(value, ";"))], dstate |-> "KEYWORDS"]
      [] field = <<"Parameter(s):">> ->
            [ds |-> [d EXCEPT !.parameters = Append(@, value)], dstate |-> "PARAMETERS"]
      [] field = <<"Size:">> ->
            [ds |-> [d EXCEPT !.size = Some(value)], dstate |-> "SIZE"]
      [] field = <<"License:">> ->
            [ds |-> [d EXCEPT !.license = Some(value)], dstate |-> "LICENSE"]
      [] field = <<"Further Details:">> ->
            [ds |-> [d EXCEPT !.further_details = Some(value)], dstate |-> "FURTHER_DETAILS"]
      [] OTHER ->
            [ds |-> d, dstate |-> "INIT"]

(* lines 101-121: a line of the description block with a tab in it *)
LabelLine(d, dstate, field, value) ==
    CASE field = <<"Citation:">> ->
            [ds |-> [d EXCEPT !.citations = Some(value)], dstate |-> "CITATION"]
      [] field = <<"Abstract:">> ->
            [ds |-> [d EXCEPT !.abstract = Some(value)], dstate |-> "ABSTRACT"]
      [] field = <<"Keyword(s):">> ->
            [ds |-> [d EXCEPT !.keywords = Some(Split(value, ";"))], dstate |-> "KEYWORDS"]
      [] field = <<"Parameter(s):">> ->
            [ds |-> [d EXCEPT !.parameters = Append(@, value)], dstate |-> "PARAMETERS"]
      [] field = <<"Size:">> ->
            [ds |-> [d EXCEPT !.size = Some(value)], dstate |-> "SIZE"]
      [] field = <<"License:">> ->
            [ds |-> [d EXCEPT !.license = Some(value)], dstate |-> "LICENSE"]
      [] field = <<"Further Details:">> ->
            [ds |-> [d EXCEPT !.further_details = Some(value)], dstate |-> "FURTHER_DETAILS"]
      [] OTHER ->
            [ds |-> d, dstate |-> dstate]

(* Concat putting a blank between the two texts *)
Concat_WithBlank(a, value) == Some(a.val \o << SP >> \o value)

(* `a + value` of lines 130-138: str + str, TypeError when a is None *)
Concat(a, value) == Some(a.val \o value)

(* lines 123-138: a line of the description block without a tab.
   list.append returns None, so line 127 leaves keywords None; on a None
   receiver it raises AttributeError, as `None + value` raises TypeError. *)
ContinuationLine(d, dstate, value) ==
    CASE dstate = "PARAMETERS" ->
            [ds |-> [d EXCEPT !.parameters = Append(@, value)], err |-> "ok"]
      [] dstate = "KEYWORDS" ->
            IF d.keywords.isNone
            THEN [ds |-> d, err |-> "AttributeError"]
            ELSE [ds |-> [d EXCEPT !.keywords = None], err |-> "ok"]
      [] dstate = "FURTHER_DETAILS" ->
            IF d.further_details.isNone THEN [ds |-> d, err |-> "TypeError"]
            ELSE [ds |-> [d EXCEPT !.further_details = Concat(@, value)], err |-> "ok"]
      [] dstate = "ABSTRACT" ->
            IF d.abstract.isNone THEN [ds |-> d, err |-> "TypeError"]
            ELSE [ds |-> [d EXCEPT !.abstract = Concat(@, value)], err |-> "ok"]
      [] dstate = "CITATION" ->
            IF d.citations.isNone THEN [ds |-> d, err |-> "TypeError"]
            ELSE [ds |-> [d EXCEPT !.citations = Concat(@, value)], err |-> "ok"]
      [] dstate = "LICENSE" ->
            IF d.license.isNone THEN [ds |-> d, err |-> "TypeError"]
            ELSE [ds |-> [d EXCEPT !.license = Concat(@, value)], err |-> "ok"]
      [] dstate = "SIZE" ->
            IF d.size.isNone THEN [ds |-> d, err |-> "TypeError"]
            ELSE [ds |-> [d EXCEPT !.size = Concat(@, value)], err |-> "ok"]
      [] OTHER ->
            [ds |-> d, err |-> "ok"]

(* lines 97-139: a line read while state is DESCRIPTION *)
DescriptionLine(d, dstate, line) ==
    LET fields == SplitFirst(line, TAB)
    IN  IF Len(fields) = 2
        THEN LET r == LabelLine(d, dstate, Strip(fields[1]), fields[2])
             IN  [ds |-> r.ds, dstate |-> r.dstate, err |-> "ok"]
        ELSE LET r == ContinuationLine(d, dstate, fields[1])
             IN  [ds |-> r.ds, dstate |-> dstate, err |-> r.err]

(* ParseLine with the test of line 96 lost: a line read in the state INIT is
   taken for a line of the description block *)
ParseLine_NoStateCheck(d, st, dstate, raw) ==
    LET line == Strip(raw)
    IN  IF line = START_MARKER
        THEN [ds |-> d, state |-> "DESCRIPTION", dstate |-> dstate, err |-> "ok", stop |-> FALSE]
        ELSE IF line = END_MARKER
        THEN [ds |-> d, state |-> "HEADER", dstate |-> dstate, err |-> "ok", stop |-> FALSE]
        ELSE IF st \in {"DESCRIPTION", "INIT"}
        THEN LET r == DescriptionLine(d, dstate, line)
             IN  [ds |-> r.ds, state |-> st, dstate |-> r.dstate, err |-> r.err, stop |-> FALSE]
        ELSE [ds |-> HeaderLine(d, line), state |-> "DATA", dstate |-> dstate,
              err |-> "ok", stop |-> TRUE]

(* ParseLine with the break of line 153 lost *)
ParseLine_NoBreak(d, st, dstate, raw) ==
    LET line == Strip(raw)
    IN  IF line = START_MARKER
        THEN [ds |-> d, state |-> "DESCRIPTION", dstate |-> dstate, err |-> "ok", stop |-> FALSE]
        ELSE IF line = END_MARKER
        THEN [ds |-> d, state |-> "HEADER", dstate |-> dstate, err |-> "ok", stop |-> FALSE]
        ELSE IF st = "DESCRIPTION"
        THEN LET r == DescriptionLine(d, dstate, line)
             IN  [ds |-> r.ds, state |-> st, dstate |-> r.dstate, err |-> r.err, stop |-> FALSE]
        ELSE IF st = "HEADER"
        THEN [ds |-> HeaderLine(d, line), state |-> "DATA", dstate |-> dstate,
              err |-> "ok", stop |-> FALSE]
        ELSE [ds |-> d, state |-> st, dstate |-> dstate, err |-> "ok", stop |-> FALSE]

(* lines 88-153: the body of the loop for one line.
   stop is the `break` of line 153. *)
ParseLine(d, st, dstate, raw) ==
    LET line == Strip(raw)
    IN  IF line = START_MARKER
        THEN [ds |-> d, state |-> "DESCRIPTION", dstate |-> dstate, err |-> "ok", stop |-> FALSE]
        ELSE IF line = END_MARKER
        THEN [ds |-> d, state |-> "HEADER", dstate |-> dstate, err |-> "ok", stop |-> FALSE]
        ELSE IF st = "DESCRIPTION"
        THEN LET r == DescriptionLine(d, dstate, line)
             IN  [ds |-> r.ds, state |-> st, dstate |-> r.dstate, err |-> r.err, stop |-> FALSE]
        ELSE IF st = "HEADER"
        THEN [ds |-> HeaderLine(d, line), state |-> "DATA", dstate |-> dstate,
              err |-> "ok", stop |-> TRUE]
        ELSE [ds |-> d, state |-> st, dstate |-> dstate, err |-> "ok", stop |-> FALSE]

(* pd.read_csv(file_path, sep="\t", skiprows=skiprows, names=names), lines
   154-155.  Blank lines are skipped; with names of None the first remaining
   line is the header and an exhausted file is an EmptyDataError; duplicate
   names are a ValueError; a row after the first with more fields than the
   wider of names and the first row is a ParserError.  The table is the
   names and the tokenised rows. *)
RECURSIVE NonBlank(_)
NonBlank(ls) ==
    IF ls = <<>> THEN <<>>
    ELSE IF Head(ls) = <<>> THEN NonBlank(Tail(ls))
    ELSE << Head(ls) >> \o NonBlank(Tail(ls))

HasDuplicates(names) ==
    \E i, j \in 1..Len(names) : i < j /\ names[i] = names[j]

Max(a, b) == IF a >= b THEN a ELSE b

Ragged(rows, width) ==
    /\ rows # <<>>
    /\ \E j \in 2..Len(rows) : Len(rows[j]) > Max(width, Len(rows[1]))

ReadCsv(exists, lines, skip, names) ==
    LET rest == NonBlank(SubSeq(lines, skip + 1, Len(lines)))
        toks == [j \in 1..Len(rest) |-> Split(rest[j], TAB)]
    IN  IF ~exists THEN [err |-> "FileNotFoundError", table |-> None]
        ELSE IF names.isNone
        THEN IF rest = <<>> THEN [err |-> "EmptyDataError", table |-> None]
             ELSE IF Ragged(Tail(toks), Len(toks[1]))
             THEN [err |-> "ParserError", table |-> None]
             ELSE [err |-> "ok", table |-> Some(<< toks[1], Tail(toks) >>)]
        ELSE IF HasDuplicates(names.val) THEN [err |-> "ValueError", table |-> None]
        ELSE IF Ragged(toks, Len(names.val)) THEN [err |-> "ParserError", table |-> None]
        ELSE [err |-> "ok", table |-> Some(<< names.val, toks >>)]

----------------------------------------------------------------------------
(* The threads of the program and the frames of their calls *)

Threads == {"t1", "t2"}

(* the outcome of the public operation `of`: it returned val (kind "ok") or
   raised the exception that kind names *)
Result(of, kind, val) == [of |-> of, kind |-> kind, val |-> val]

(* the call `of` of thread t ends; the locals of _load die with the frame *)
ExitOf(t, of, kind, val) ==
    /\ pc' = [pc EXCEPT ![t] = "idle"]
    /\ op' = [op EXCEPT ![t] = "none"]
    /\ ret' = [ret EXCEPT ![t] = Result(of, kind, val)]
    /\ state' = [state EXCEPT ![t] = "INIT"]
    /\ description_state' = [description_state EXCEPT ![t] = "INIT"]
    /\ skiprows' = [skiprows EXCEPT ![t] = 0]

Exit(t, kind, val) ==
    ExitOf(t, IF op[t] = "info_tail" THEN "info" ELSE op[t], kind, val)

(* thread t enters PanFileDataSet.data (line 163) or .info (line 63) *)
Enter(t, o) ==
    /\ pc' = [pc EXCEPT ![t] = "load"]
    /\ op' = [op EXCEPT ![t] = o]
    /\ calls' = calls + 1
    /\ UNCHANGED << ret, state, description_state, skiprows >>

(* PanFileDataSet(P), lines 45-57 *)
NewPanFileDataSet ==
    /\ made = "nothing"
    /\ made' = "PanFileDataSet"
    /\ ds' = Constructed
    /\ UNCHANGED << fs_exists, fs_lines, fs_accessed, cds, remote_index, pc, op, state,
                    description_state, skiprows, ret, calls, parse_runs >>

(* a caller reads ds.data or calls ds.info() on the record it constructed *)
Call(t, o) ==
    /\ made = "PanFileDataSet"
    /\ pc[t] = "idle"
    /\ calls < MaxCalls
    /\ Enter(t, o)
    /\ UNCHANGED << fs_exists, fs_lines, fs_accessed, made, ds, cds, remote_index,
                    parse_runs >>

(* LoadGuard with lines 79-80 lost: a loaded record is parsed again *)
LoadGuard_NoCache(t) ==
    /\ pc[t] = "load"
    /\ fs_accessed' = TRUE
    /\ IF fs_exists
       THEN /\ pc' = [pc EXCEPT ![t] = "open"]
            /\ state' = [state EXCEPT ![t] = "INIT"]
            /\ description_state' = [description_state EXCEPT ![t] = "INIT"]
            /\ UNCHANGED << op, ret, skiprows >>
       ELSE Exit(t, "FileNotFoundError", None)
    /\ UNCHANGED << fs_exists, fs_lines, made, ds, cds, remote_index, calls, parse_runs >>

(* LoadGuard with lines 83-84 lost: a missing file is not noticed here *)
LoadGuard_NoExistsCheck(t) ==
    /\ pc[t] = "load"
    /\ IF ds.loaded
       THEN /\ pc' = [pc EXCEPT ![t] = "return"]
            /\ UNCHANGED << fs_accessed, op, ret, state, description_state, skiprows >>
       ELSE /\ pc' = [pc EXCEPT ![t] = "open"]
            /\ state' = [state EXCEPT ![t] = "INIT"]
            /\ description_state' = [description_state EXCEPT ![t] = "INIT"]
            /\ UNCHANGED << fs_accessed, op, ret, skiprows >>
    /\ UNCHANGED << fs_exists, fs_lines, made, ds, cds, remote_index, calls, parse_runs >>

(* _load, lines 79-84: the loaded guard and the existence check *)
LoadGuard(t) ==
    /\ pc[t] = "load"
    /\ IF ds.loaded
       THEN /\ pc' = [pc EXCEPT ![t] = "return"]
            /\ UNCHANGED << fs_accessed, op, ret, state, description_state, skiprows >>
       ELSE /\ fs_accessed' = TRUE
            /\ IF fs_exists
               THEN /\ pc' = [pc EXCEPT ![t] = "open"]
                    /\ state' = [state EXCEPT ![t] = "INIT"]
                    /\ description_state' = [description_state EXCEPT ![t] = "INIT"]
                    /\ UNCHANGED << op, ret, skiprows >>
               ELSE Exit(t, "FileNotFoundError", None)
    /\ UNCHANGED << fs_exists, fs_lines, made, ds, cds, remote_index, calls, parse_runs >>

(* _load, lines 85-86: skiprows = 0 and open() *)
LoadOpen(t) ==
    /\ pc[t] = "open"
    /\ IF fs_exists
       THEN /\ pc' = [pc EXCEPT ![t] = "loop"]
            /\ skiprows' = [skiprows EXCEPT ![t] = 0]
            /\ parse_runs' = parse_runs + 1
            /\ UNCHANGED << op, ret, state, description_state >>
       ELSE /\ Exit(t, "FileNotFoundError", None)
            /\ UNCHANGED parse_runs
    /\ UNCHANGED << fs_exists, fs_lines, fs_accessed, made, ds, cds, remote_index, calls >>

(* _load, lines 87-153: one iteration of `for line in file`, or its end *)
LoadLine(t) ==
    /\ pc[t] = "loop"
    /\ IF skiprows[t] < Len(fs_lines)
       THEN LET r == ParseLine(ds, state[t], description_state[t],
                               fs_lines[skiprows[t] + 1])
            IN  /\ ds' = r.ds
                /\ IF r.err = "ok"
                   THEN /\ skiprows' = [skiprows EXCEPT ![t] = @ + 1]
                        /\ state' = [state EXCEPT ![t] = r.state]
                        /\ description_state' = [description_state EXCEPT ![t] = r.dstate]
                        /\ pc' = [pc EXCEPT ![t] = IF r.stop THEN "read_csv" ELSE "loop"]
                        /\ UNCHANGED << op, ret >>
                   ELSE Exit(t, r.err, None)
       ELSE /\ pc' = [pc EXCEPT ![t] = "read_csv"]
            /\ UNCHANGED << ds, op, ret, state, description_state, skiprows >>
    /\ UNCHANGED << fs_exists, fs_lines, fs_accessed, made, cds, remote_index, calls,
                    parse_runs >>

(* _load, lines 154-156: the table load and the loaded flag *)
LoadReadCsv(t) ==
    /\ pc[t] = "read_csv"
    /\ LET r == ReadCsv(fs_exists, fs_lines, skiprows[t], ds.columns)
       IN  IF r.err = "ok"
           THEN /\ ds' = [ds EXCEPT !.data = r.table, !.loaded = TRUE]
                /\ pc' = [pc EXCEPT ![t] = "return"]
                /\ UNCHANGED << op, ret, state, description_state, skiprows >>
           ELSE /\ Exit(t, r.err, None)
                /\ UNCHANGED ds
    /\ UNCHANGED << fs_exists, fs_lines, fs_accessed, made, cds, remote_index, calls,
                    parse_runs >>

(* info, lines 64-73: the prints, the last of which reads self.data; the
   locals of the _load of line 63 are gone *)
InfoPrint(t) ==
    /\ pc[t] = "return"
    /\ op[t] = "info"
    /\ pc' = [pc EXCEPT ![t] = "load"]
    /\ op' = [op EXCEPT ![t] = "info_tail"]
    /\ state' = [state EXCEPT ![t] = "INIT"]
    /\ description_state' = [description_state EXCEPT ![t] = "INIT"]
    /\ skiprows' = [skiprows EXCEPT ![t] = 0]
    /\ UNCHANGED << fs_exists, fs_lines, fs_accessed, made, ds, cds, remote_index, ret,
                    calls, parse_runs >>

(* data, line 164: return self._data; info returns None after its last print *)
Return(t) ==
    /\ pc[t] = "return"
    /\ op[t] # "info"
    /\ Exit(t, "ok", IF op[t] = "data" THEN ds.data ELSE None)
    /\ UNCHANGED << fs_exists, fs_lines, fs_accessed, made, ds, cds, remote_index, calls,
                    parse_runs >>

(* the public attributes of lines 51-57 and what a read of one yields *)
MetadataFields ==
    { "citations", "abstract", "keywords", "parameters", "size", "license",
      "further_details" }

FieldValue(d, f) ==
    CASE f = "citations" -> d.citations
      [] f = "abstract" -> d.abstract
      [] f = "keywords" -> d.keywords
      [] f = "parameters" -> Some(d.parameters)
      [] f = "size" -> d.size
      [] f = "license" -> d.license
      [] f = "further_details" -> d.further_details

(* a caller reads the attribute ds.<f>: a plain attribute read, no call *)
ReadField(t, f) ==
    /\ made = "PanFileDataSet"
    /\ pc[t] = "idle"
    /\ ret' = [ret EXCEPT ![t] = Result(f, "ok", FieldValue(ds, f))]
    /\ UNCHANGED << fs_exists, fs_lines, fs_accessed, made, ds, cds, remote_index, pc, op,
                    state, description_state, skiprows, calls, parse_runs >>

----------------------------------------------------------------------------
(* class PanCachedDataSet *)

(* PanCachedDataSet(pangaea_index, file_path), lines 172-176 *)
CachedConstructed(index, file_path) ==
    [ index        |-> index,
      file_path    |-> file_path,
      enable_cache |-> TRUE,
      data_set     |-> "None" ]

NewPanCachedDataSet(index, file_path) ==
    /\ made = "nothing"
    /\ made' = "PanCachedDataSet"
    /\ cds' = CachedConstructed(index, file_path)
    /\ UNCHANGED << fs_exists, fs_lines, fs_accessed, ds, remote_index, pc, op, state,
                    description_state, skiprows, ret, calls, parse_runs >>

(* SelectDataSet with lines 185-186 lost *)
SelectDataSet_NoConfigCheck(c, exists, remote_ok) ==
    IF c.data_set # "None" THEN [err |-> "ok", backend |-> c.data_set, remote |-> FALSE]
    ELSE IF c.file_path # "None" /\ exists
    THEN [err |-> "ok", backend |-> "File", remote |-> FALSE]
    ELSE IF remote_ok
    THEN [err |-> "ok", backend |-> "Remote", remote |-> TRUE]
    ELSE [err |-> "RemoteError", backend |-> "None", remote |-> TRUE]

(* SelectDataSet with the test of line 187 on the identifier instead: the
   local file is used only when no identifier is given *)
SelectDataSet_IndexFirst(c, exists, remote_ok) ==
    IF c.data_set # "None" THEN [err |-> "ok", backend |-> c.data_set, remote |-> FALSE]
    ELSE IF c.index = "None" /\ c.file_path = "None"
    THEN [err |-> "ValueError", backend |-> "None", remote |-> FALSE]
    ELSE IF c.index = "None" /\ exists
    THEN [err |-> "ok", backend |-> "File", remote |-> FALSE]
    ELSE IF remote_ok
    THEN [err |-> "ok", backend |-> "Remote", remote |-> TRUE]
    ELSE [err |-> "RemoteError", backend |-> "None", remote |-> TRUE]

(* SelectDataSet with the test of lines 183-184 lost: every access selects *)
SelectDataSet_NoMemo(c, exists, remote_ok) ==
    IF c.index = "None" /\ c.file_path = "None"
    THEN [err |-> "ValueError", backend |-> "None", remote |-> FALSE]
    ELSE IF c.file_path # "None" /\ exists
    THEN [err |-> "ok", backend |-> "File", remote |-> FALSE]
    ELSE IF remote_ok
    THEN [err |-> "ok", backend |-> "Remote", remote |-> TRUE]
    ELSE [err |-> "RemoteError", backend |-> "None", remote |-> TRUE]

(* the property data_set, lines 183-192.  remote_ok: whether the constructor
   of the remote collaborator returns; it raises otherwise. *)
SelectDataSet(c, exists, remote_ok) ==
    IF c.data_set # "None" THEN [err |-> "ok", backend |-> c.data_set, remote |-> FALSE]
    ELSE IF c.index = "None" /\ c.file_path = "None"
    THEN [err |-> "ValueError", backend |-> "None", remote |-> FALSE]
    ELSE IF c.file_path # "None" /\ exists
    THEN [err |-> "ok", backend |-> "File", remote |-> FALSE]
    ELSE IF remote_ok
    THEN [err |-> "ok", backend |-> "Remote", remote |-> TRUE]
    ELSE [err |-> "RemoteError", backend |-> "None", remote |-> TRUE]

(* a caller reads c.data_set (o = "data_set"), c.data (o = "data", line 199)
   or calls c.print_info() (o = "info", lines 205-208) *)
CachedCall(t, o) ==
    /\ made = "PanCachedDataSet"
    /\ pc[t] = "idle"
    /\ calls < MaxCalls
    /\ \E remote_ok \in BOOLEAN :
        LET r == SelectDataSet(cds, fs_exists, remote_ok)
        IN  /\ cds' = [cds EXCEPT !.data_set = r.backend]
            /\ fs_accessed' = (fs_accessed \/ (cds.data_set = "None" /\ cds.file_path # "None"))
            /\ remote_index' = IF r.remote THEN Append(remote_index, cds.index)
                               ELSE remote_index
            /\ ds' = IF cds.data_set = "None" /\ r.backend = "File" THEN Constructed ELSE ds
            /\ IF r.err = "ok" /\ r.backend = "File" /\ o # "data_set"
               THEN Enter(t, o)
               ELSE /\ ExitOf(t, o, r.err, None)
                    /\ calls' = calls + 1
    /\ UNCHANGED << fs_exists, fs_lines, made, parse_runs >>

----------------------------------------------------------------------------
(* The environment: the file at P appears and disappears *)

FsCreate ==
    /\ ~fs_exists
    /\ fs_exists' = TRUE
    /\ UNCHANGED << fs_lines, fs_accessed, made, ds, cds, remote_index, pc, op, state,
                    description_state, skiprows, ret, calls, parse_runs >>

FsDelete ==
    /\ fs_exists
    /\ fs_exists' = FALSE
    /\ UNCHANGED << fs_lines, fs_accessed, made, ds, cds, remote_index, pc, op, state,
                    description_state, skiprows, ret, calls, parse_runs >>

----------------------------------------------------------------------------
(* Files *)

SeqsUpTo(S, n) == UNION { [1..k -> S] : k \in 0..n }

Labels == { "Citation:", "Abstract:", "Keyword(s):", "Parameter(s):", "Size:",
            "License:", "Further Details:" }

(* a labelled line of the description block: label, tab, value *)
Labelled(label, value) == << label, TAB >> \o value

(* the lines of the files of Spec; the labelled line also serves as a
   header line and as a row of two fields *)
MainLines ==
    { START_MARKER, END_MARKER, Labelled("Citation:", <<"s">>) }

(* the lines of the files of SpecParse *)
ParseLines ==
    { START_MARKER, END_MARKER, << "c" >>, Labelled("Keyword(s):", <<"k", ";", "m">>),
      Labelled("Unknown:", <<"v">>) }
    \cup { Labelled(l, <<"s">>) : l \in Labels \ {"Keyword(s):"} }

(* the lines of the files of SpecKeywords: the markers, a blank line, a
   line with no tab, two labelled lines and a labelled line whose value is
   white space only *)
KeywordLines ==
    { START_MARKER, END_MARKER, << >>, << "c" >>,
      Labelled("Keyword(s):", <<"k", ";", "m">>),
      Labelled("Parameter(s):", <<"p">>),
      Labelled("Parameter(s):", << SP >>) }

(* the files of SpecRead: a description block of labelled lines, then a header *)
ReadFiles ==
    { << START_MARKER >> \o d \o << END_MARKER, << "A", TAB, "B" >> >> :
        d \in SeqsUpTo(ParseLines \ { START_MARKER, END_MARKER, << "c" >> }, MaxLabelled) }

(* the files of SpecBlock: a description block of any lines but markers,
   then a header *)
BlockFiles ==
    { << START_MARKER >> \o d \o << END_MARKER, << "A", TAB, "B" >> >> :
        d \in SeqsUpTo(ParseLines \ { START_MARKER, END_MARKER }, MaxBlock) }

(* the files of SpecRetry and SpecThreads: a description block of parameter
   lines and lines with no tab, then a header *)
ParameterFiles ==
    { << START_MARKER >> \o d \o << END_MARKER, << "A", TAB, "B" >> >> :
        d \in SeqsUpTo({ Labelled("Parameter(s):", <<"p">>), << "c" >> }, MaxLabelled) }

(* the raw header fields of the files of SpecHeader *)
RawFields ==
    { << "A" >>, << "A", SP, "[", "m", "]" >>, << "A", "_", "2" >>,
      << "A", "_", "2", "[", "x", "]" >>, << "B" >>, << >> }

RECURSIVE JoinTab(_)
JoinTab(fields) ==
    IF Len(fields) = 1 THEN fields[1]
    ELSE fields[1] \o << TAB >> \o JoinTab(Tail(fields))

HeaderFiles ==
    { << END_MARKER, JoinTab(h) >> : h \in SeqsUpTo(RawFields, MaxHeader) \ { << >> } }

----------------------------------------------------------------------------
(* Specifications *)

InitWith(files) ==
    /\ fs_exists \in BOOLEAN
    /\ fs_lines \in files
    /\ fs_accessed = FALSE
    /\ made = "nothing"
    /\ ds = Constructed
    /\ cds = CachedConstructed("None", "None")
    /\ remote_index = << >>
    /\ pc = [t \in Threads |-> "idle"]
    /\ op = [t \in Threads |-> "none"]
    /\ state = [t \in Threads |-> "INIT"]
    /\ description_state = [t \in Threads |-> "INIT"]
    /\ skiprows = [t \in Threads |-> 0]
    /\ ret = [t \in Threads |-> Result("none", "none", None)]
    /\ calls = 0
    /\ parse_runs = 0

(* the steps of thread t on a PanFileDataSet *)
FileStep(t) ==
    \/ \E o \in {"data", "info"} : Call(t, o)
    \/ LoadGuard(t)
    \/ LoadOpen(t)
    \/ LoadLine(t)
    \/ LoadReadCsv(t)
    \/ InfoPrint(t)
    \/ Return(t)

(* one thread, a PanFileDataSet over a file that stays as it is *)
NextFile ==
    \/ NewPanFileDataSet
    \/ FileStep("t1")

(* one thread, either class, a file that may appear and disappear *)
Next ==
    \/ NextFile
    \/ \E index \in {"None", "id"}, file_path \in {"None", "P"} :
          NewPanCachedDataSet(index, file_path)
    \/ \E o \in {"data_set", "data", "info"} : CachedCall("t1", o)
    \/ FsCreate
    \/ FsDelete

Init == InitWith(SeqsUpTo(MainLines, MaxLines))
Spec == Init /\ [][Next]_vars

InitParse == InitWith(SeqsUpTo(ParseLines, MaxParseLines))
SpecParse == InitParse /\ [][NextFile]_vars

InitHeader == InitWith(HeaderFiles)
SpecHeader == InitHeader /\ [][NextFile]_vars

InitKeywords == InitWith(SeqsUpTo(KeywordLines, MaxKeywordLines))
SpecKeywords == InitKeywords /\ [][NextFile]_vars

InitBlock == InitWith(BlockFiles)
SpecBlock == InitBlock /\ [][NextFile]_vars

(* one thread, a PanFileDataSet over a file that may appear and disappear *)
NextRetry ==
    \/ NextFile
    \/ FsCreate
    \/ FsDelete

InitRetry == InitWith(ParameterFiles)
SpecRetry == InitRetry /\ [][NextRetry]_vars

(* two threads sharing one PanFileDataSet over a file that stays as it is;
   nothing in the class locks, so their steps interleave line by line *)
NextThreads ==
    \/ NewPanFileDataSet
    \/ \E t \in Threads : FileStep(t)

InitThreads == InitWith(ParameterFiles)
SpecThreads == InitThreads /\ [][NextThreads]_vars

(* as NextFile, with the caller also reading the public attributes *)
NextRead ==
    \/ NextFile
    \/ \E f \in MetadataFields : ReadField("t1", f)

InitRead == InitWith(ReadFiles)
SpecRead == InitRead /\ [][NextRead]_vars

----------------------------------------------------------------------------
(* Properties of the header line (SpecHeader) *)

(* the text of h before its first "[", whitespace-trimmed *)
TextBefore(h, c) ==
    LET n == CHOOSE k \in 0..Len(h) :
                 /\ \A j \in 1..k : h[j] # c
                 /\ (k < Len(h) => h[k + 1] = c)
    IN  SubSeq(h, 1, n)

Base(h) == Strip(TextBefore(h, "["))

(* the number of positions j <= i of header whose base name is that of i *)
Occurrences(header, i) ==
    Cardinality({ j \in 1..i : Base(header[j]) = Base(header[i]) })

(* C1: after _load has consumed a header line, the columns list holds no
   two equal names. *)
C1_ColumnsDistinct ==
    ~ds.columns.isNone =>
        \A i, j \in 1..Len(ds.columns.val) :
            i # j => ds.columns.val[i] # ds.columns.val[j]

(* C2: columns is as long as header_raw, and columns[i] is the base name of
   header_raw[i] when that base name occurs at no earlier position, and
   otherwise the base name suffixed with "_k", k >= 2 the number of
   occurrences of the base name at positions <= i. *)
C2_ColumnsFromHeader ==
    ~ds.header.isNone =>
        /\ ~ds.columns.isNone
        /\ Len(ds.columns.val) = Len(ds.header.val)
        /\ \A i \in 1..Len(ds.header.val) :
              LET k == Occurrences(ds.header.val, i)
                  b == Base(ds.header.val[i])
              IN  ds.columns.val[i] =
                      IF k = 1 THEN b ELSE b \o << "_" >> \o IntToStr(k)

(* a header whose base name occurs three times has been consumed *)
C2_Witness ==
    /\ ~ds.header.isNone
    /\ \E i \in 1..Len(ds.header.val) :
          /\ Occurrences(ds.header.val, i) = 3
          /\ ds.header.val[i] # Base(ds.header.val[i])

----------------------------------------------------------------------------
(* Properties of the description block (SpecParse) *)

Metadata(d) ==
    << d.citations, d.abstract, d.keywords, d.parameters, d.size, d.license,
       d.further_details >>

IsMarker(raw) == Strip(raw) \in { START_MARKER, END_MARKER }

(* thread t is about to read a line that is no marker, in the outer state st *)
AboutToRead(t, st) ==
    /\ pc[t] = "loop"
    /\ skiprows[t] < Len(fs_lines)
    /\ state[t] = st
    /\ ~IsMarker(fs_lines[skiprows[t] + 1])

(* C3: a step changes a metadata field only if it reads a line that is no
   marker while the outer state is DESCRIPTION; a file with no start marker
   populates no metadata. *)
C3_MetadataOnlyInDescription ==
    /\ []((\A i \in 1..Len(fs_lines) : Strip(fs_lines[i]) # START_MARKER)
            => Metadata(ds) = Metadata(Constructed))
    /\ [][Metadata(ds') # Metadata(ds) => AboutToRead("t1", "DESCRIPTION")]_vars

(* in the first parse of the record, a line of the description block has
   set a field *)
C3_Witness ==
    /\ Metadata(ds) # Metadata(Constructed)
    /\ parse_runs = 1
    /\ pc["t1"] = "loop"
    /\ state["t1"] = "DESCRIPTION"

----------------------------------------------------------------------------
(* Properties of the lazy load (SpecRead, Spec) *)

(* the label that sets the attribute f *)
LabelOf(f) ==
    CASE f = "citations" -> "Citation:"
      [] f = "abstract" -> "Abstract:"
      [] f = "keywords" -> "Keyword(s):"
      [] f = "parameters" -> "Parameter(s):"
      [] f = "size" -> "Size:"
      [] f = "license" -> "License:"
      [] f = "further_details" -> "Further Details:"

HasLabel(lines, f) ==
    \E i \in 1..Len(lines) : lines[i] # << >> /\ lines[i][1] = LabelOf(f)

(* C4: every read of a metadata field of a record over a well-formed file
   returns the parsed value, never the empty value the constructor
   assigned. *)
C4_ReadsParsedValue ==
    \A f \in MetadataFields :
        (fs_exists /\ ret["t1"].of = f /\ HasLabel(fs_lines, f))
            => ret["t1"].val # FieldValue(Constructed, f)

(* C5: once the record is loaded, no step re-parses or changes a field of
   the record, and a read of data returns the cached table. *)
C5_LoadedIsFinal ==
    [][ds.loaded =>
          /\ ds' = ds
          /\ parse_runs' = parse_runs
          /\ pc'["t1"] \notin {"open", "loop", "read_csv"}
          /\ (pc["t1"] = "return" /\ op["t1"] = "data" /\ pc'["t1"] = "idle")
                => ret'["t1"] = Result("data", "ok", ds.data)]_vars

(* a second read of data has found the record loaded *)
C5_Witness ==
    /\ ds.loaded
    /\ calls >= 2
    /\ pc["t1"] = "return"
    /\ op["t1"] = "data"
    /\ state["t1"] = "INIT"
    /\ parse_runs = 1

(* C6: constructing either class touches no file and raises nothing; an
   access to data or info that finds no file at the path raises the
   not-found error and leaves every field of the record as it was, which at
   the first access is the constructed value. *)
C6_ConstructionIsInert ==
    /\ [](calls = 0 =>
            /\ ~fs_accessed
            /\ ret["t1"].kind = "none"
            /\ ds = Constructed
            /\ cds.data_set = "None"
            /\ remote_index = << >>)
    /\ [][(pc["t1"] = "load" /\ pc'["t1"] # "load" /\ ~ds.loaded /\ ~fs_exists) =>
            /\ ret'["t1"].kind = "FileNotFoundError"
            /\ pc'["t1"] = "idle"
            /\ ds' = ds
            /\ (calls = 1 => ds' = Constructed)]_vars

(* the first access to a PanFileDataSet has raised the not-found error *)
C6_Witness ==
    /\ made = "PanFileDataSet"
    /\ calls = 1
    /\ pc["t1"] = "idle"
    /\ ret["t1"].kind = "FileNotFoundError"
    /\ parse_runs = 0
    /\ ds = Constructed

(* C7: a PanCachedDataSet with neither identifier nor file path is
   constructed without error, and every access to it raises the
   configuration error and selects or creates no backing data set. *)
C7_NeitherConfigured ==
    (made = "PanCachedDataSet" /\ cds.index = "None" /\ cds.file_path = "None") =>
        /\ cds.data_set = "None"
        /\ remote_index = << >>
        /\ ds = Constructed
        /\ pc["t1"] = "idle"
        /\ ret["t1"].kind = (IF calls = 0 THEN "none" ELSE "ValueError")

(* a second access to such a record has failed *)
C7_Witness ==
    /\ made = "PanCachedDataSet"
    /\ cds.index = "None"
    /\ cds.file_path = "None"
    /\ calls >= 2
    /\ ret["t1"].kind = "ValueError"

(* C8: the first access to data_set selects the file backend whenever a file
   path is configured and the file exists then, identifier or not, and the
   remote collaborator only when no file exists at the configured path. *)
C8_LocalFilePreferred ==
    [][(made = "PanCachedDataSet" /\ cds.data_set = "None" /\ calls' = calls + 1) =>
          /\ (cds.file_path # "None" /\ fs_exists) => cds'.data_set = "File"
          /\ cds'.data_set = "File" => (cds.file_path # "None" /\ fs_exists)
          /\ cds'.data_set = "Remote" => ~(cds.file_path # "None" /\ fs_exists)]_vars

(* the file backend was selected for a record that also has an identifier *)
C8_Witness ==
    /\ made = "PanCachedDataSet"
    /\ cds.index = "id"
    /\ cds.file_path = "P"
    /\ cds.data_set = "File"

----------------------------------------------------------------------------
(* Properties of a failed parse (SpecKeywords) *)

MalformedErrors == { "EmptyDataError", "ParserError", "ValueError" }

NoEndMarker(lines) == \A i \in 1..Len(lines) : Strip(lines[i]) # END_MARKER

(* C9: after an access that failed because the file is malformed, the
   metadata fields, header and columns hold their constructed values. *)
C9_NoPartialState ==
    (pc["t1"] = "idle" /\ ret["t1"].kind \in MalformedErrors) =>
        /\ Metadata(ds) = Metadata(Constructed)
        /\ ds.header = None
        /\ ds.columns = None

(* C10: over a file with no end-marker line the parse reads every line,
   never enters HEADER or DATA, never sets header or columns, and the access
   ends in a malformed-file error, not in a loaded record. *)
C10_NoEndMarker ==
    (NoEndMarker(fs_lines) /\ fs_exists) =>
        /\ state["t1"] \notin {"HEADER", "DATA"}
        /\ ds.header = None
        /\ ds.columns = None
        /\ ~ds.loaded
        /\ pc["t1"] = "read_csv" => skiprows["t1"] = Len(fs_lines)
        /\ (pc["t1"] = "idle" /\ calls > 0) => ret["t1"].kind \in MalformedErrors

----------------------------------------------------------------------------
(* Properties of the outer state machine (SpecParse, SpecKeywords) *)

(* the step reads one line inside the loop of _load *)
ReadsLine(t) ==
    /\ pc[t] = "loop"
    /\ skiprows'[t] = skiprows[t] + 1

(* C11: while lines are read the outer state changes only INIT ->
   DESCRIPTION on a start marker, DESCRIPTION -> HEADER on an end marker and
   HEADER -> DATA on the header line; over a file with no start marker it
   stays INIT. *)
C11_OuterTransitions ==
    [][ReadsLine("t1") =>
          LET line == Strip(fs_lines[skiprows["t1"] + 1])
              from == state["t1"]
              to == state'["t1"]
          IN  /\ to # from =>
                    \/ from = "INIT" /\ to = "DESCRIPTION"
                          /\ line = START_MARKER
                    \/ from = "DESCRIPTION" /\ to = "HEADER"
                          /\ line = END_MARKER
                    \/ from = "HEADER" /\ to = "DATA"
                          /\ line \notin {START_MARKER, END_MARKER}
              /\ (\A i \in 1..Len(fs_lines) :
                      Strip(fs_lines[i]) # START_MARKER) => to = "INIT"
       ]_vars

(* the rows the tabular loader is to find after the first h lines *)
RowsAfter(lines, h) ==
    LET later == { i \in h + 1..Len(lines) : lines[i] # << >> }
        nth(k) == CHOOSE i \in later :
                      Cardinality({ j \in later : j <= i }) = k
    IN  [k \in 1..Cardinality(later) |-> Split(lines[nth(k)], TAB)]

(* C12: once the header is established it is the line right after an end
   marker, no further line is read, the skip count is the position of the
   header line in the file, and the loaded table holds the lines after it. *)
C12_HeaderPosition ==
    state["t1"] = "DATA" =>
        LET h == skiprows["t1"]
        IN  /\ pc["t1"] \in {"read_csv", "return"}
            /\ h >= 2
            /\ h <= Len(fs_lines)
            /\ Strip(fs_lines[h - 1]) = END_MARKER
            /\ ds.header = Some(Split(Strip(fs_lines[h]), TAB))
            /\ pc["t1"] = "return" =>
                  /\ ds.loaded
                  /\ ds.data = Some(<< ds.columns.val, RowsAfter(fs_lines, h) >>)

(* a table with a row has been loaded from a file whose header is its third
   line, after a blank line and the end marker *)
C12_Witness ==
    /\ state["t1"] = "DATA"
    /\ pc["t1"] = "return"
    /\ skiprows["t1"] = 3
    /\ fs_lines[1] = << >>
    /\ Len(fs_lines) > 3
    /\ ds.data.val[2] # << >>

----------------------------------------------------------------------------
(* Properties of the lines of the description block (SpecParse, SpecBlock) *)

HasTab(line) == \E i \in 1..Len(line) : line[i] = TAB

(* the text of line before its first tab, trimmed, and the text after it *)
LabelPart(line) ==
    LET i == CHOOSE i \in 1..Len(line) :
                /\ line[i] = TAB
                /\ \A j \in 1..i - 1 : line[j] # TAB
    IN  Strip(SubSeq(line, 1, i - 1))
ValuePart(line) ==
    LET i == CHOOSE i \in 1..Len(line) :
                /\ line[i] = TAB
                /\ \A j \in 1..i - 1 : line[j] # TAB
    IN  SubSeq(line, i + 1, Len(line))

Recognized(line) ==
    HasTab(line) /\ \E l \in Labels : LabelPart(line) = << l >>

(* C13: in the description block a two-part line whose label is not
   recognized, and a line with no tab read while the inner state is INIT,
   leave every metadata field and the inner state as they are. *)
C13_IgnoredLines ==
    [][(/\ AboutToRead("t1", "DESCRIPTION")
        /\ LET line == Strip(fs_lines[skiprows["t1"] + 1])
           IN  \/ HasTab(line) /\ ~Recognized(line)
               \/ ~HasTab(line) /\ description_state["t1"] = "INIT")
       => /\ Metadata(ds') = Metadata(ds)
          /\ description_state'["t1"] = description_state["t1"]
          /\ pc'["t1"] = "loop"
      ]_vars

(* a line with an unknown label has been read while a field was open *)
C13_Witness ==
    /\ pc["t1"] = "loop"
    /\ state["t1"] = "DESCRIPTION"
    /\ description_state["t1"] = "CITATION"
    /\ skiprows["t1"] = 3
    /\ fs_lines[3] = Labelled("Unknown:", <<"v">>)

(* the positions of the lines of the description block: after a start
   marker, with no end marker since *)
DescriptionBlock(lines) ==
    { i \in 1..Len(lines) :
        /\ ~IsMarker(lines[i])
        /\ \E b \in 1..i - 1 :
              /\ Strip(lines[b]) = START_MARKER
              /\ \A j \in b..i : Strip(lines[j]) # END_MARKER }

(* the lines with no tab that follow the labelled line i of the block while
   its field is open: no recognized label in between *)
ContinuationsOf(lines, i) ==
    { j \in DescriptionBlock(lines) :
        /\ j > i
        /\ ~HasTab(Strip(lines[j]))
        /\ \A k \in i + 1..j - 1 : ~Recognized(Strip(lines[k])) }

(* the texts of the lines at the positions J from i on, one after the other *)
RECURSIVE JoinLines(_, _, _)
JoinLines(lines, J, i) ==
    IF i > Len(lines) THEN << >>
    ELSE (IF i \in J THEN Strip(lines[i]) ELSE << >>) \o JoinLines(lines, J, i + 1)

(* the positions of the block's lines labelled for the attribute f *)
LabelledFor(lines, f) ==
    { i \in DescriptionBlock(lines) :
        /\ HasTab(Strip(lines[i]))
        /\ LabelPart(Strip(lines[i])) = << LabelOf(f) >> }

StringFields == { "citations", "abstract", "size", "license", "further_details" }

(* C14: when the parse has read the block and the header, each string
   field is the value of its last labelled line followed, with nothing in
   between, by every continuation line read while the field was open; a
   field with no labelled line is None. *)
C14_StringFields ==
    state["t1"] = "DATA" =>
        \A f \in StringFields :
            LET at == LabelledFor(fs_lines, f)
                last == CHOOSE i \in at : \A j \in at : j <= i
            IN  FieldValue(ds, f) =
                    IF at = {} THEN None
                    ELSE Some(ValuePart(Strip(fs_lines[last]))
                              \o JoinLines(fs_lines, ContinuationsOf(fs_lines, last), 1))

(* a citation followed by two continuation lines has been loaded *)
C14_Witness ==
    /\ state["t1"] = "DATA"
    /\ ds.loaded
    /\ ds.citations = Some(<< "s", "c", "c" >>)

(* the line i of the block is read while PARAMETERS is the open inner
   state: the last recognized label before it is 'Parameter(s):' *)
ParametersOpenAt(lines, i) ==
    \E b \in LabelledFor(lines, "parameters") :
        /\ b < i
        /\ \A k \in b + 1..i - 1 : ~Recognized(Strip(lines[k]))

(* the entries the lines from i on give to parameters *)
RECURSIVE ParameterEntries(_, _)
ParameterEntries(lines, i) ==
    IF i > Len(lines) THEN << >>
    ELSE LET line == Strip(lines[i])
         IN  (IF i \in LabelledFor(lines, "parameters")
              THEN << ValuePart(line) >>
              ELSE IF /\ i \in DescriptionBlock(lines)
                      /\ ~HasTab(line)
                      /\ ParametersOpenAt(lines, i)
              THEN << line >>
              ELSE << >>) \o ParameterEntries(lines, i + 1)

(* C15: whenever the record is loaded, parameters holds, in file order and
   one entry each, the values of the 'Parameter(s):' lines of the block and
   the continuation lines read while PARAMETERS was open. *)
C15_Parameters ==
    ds.loaded => ds.parameters = ParameterEntries(fs_lines, 1)

(* C16: keywords is a sequence of strings in every state, and no line read
   while KEYWORDS is the open inner state aborts the parse. *)
C16_KeywordsIsSequence ==
    /\ ~ds.keywords.isNone
    /\ ret["t1"].kind # "AttributeError"

----------------------------------------------------------------------------
(* Properties of the load guard under two threads (SpecThreads) *)

(* thread t has called data or info at least once *)
HasCalled(t) == pc[t] # "idle" \/ ret[t].kind # "none"

(* C17: the parse body runs more than once on a record that gets loaded
   only when both threads have accessed it: with one thread it runs at most
   once per loaded record; with two it can run twice (the witness). *)
C17_ReparseOnlyWithTwoThreads ==
    (ds.loaded /\ parse_runs > 1) => \A t \in Threads : HasCalled(t)

(* both threads passed the loaded check and ran the parse body, and the one
   parameter of the file is in parameters twice *)
C17_Witness ==
    /\ ds.loaded
    /\ parse_runs = 2
    /\ Len(ParameterEntries(fs_lines, 1)) = 1
    /\ Len(ds.parameters) = 2
    /\ \A t \in Threads : pc[t] = "idle" /\ ret[t].kind = "ok"

----------------------------------------------------------------------------
(* Properties of the backend of a PanCachedDataSet (Spec) *)

(* C18: once a backend is selected, no step selects again: the backend stays
   the same object, no further remote data set is created and a loaded file
   backend stays loaded, whether the file appears or disappears. *)
C18_BackendSelectedOnce ==
    [][(made = "PanCachedDataSet" /\ cds.data_set # "None") =>
          /\ cds'.data_set = cds.data_set
          /\ remote_index' = remote_index
          /\ ds.loaded => ds'.loaded
      ]_vars

(* a record with a file path uses its remote backend in a second access
   though the file exists by now *)
C18_Witness ==
    /\ made = "PanCachedDataSet"
    /\ cds.file_path = "P"
    /\ cds.data_set = "Remote"
    /\ fs_exists
    /\ calls >= 2
    /\ Len(remote_index) = 1
    /\ ret["t1"].kind = "ok"

(* C19: every remote data set is created with an identifier. *)
C19_RemoteHasIdentifier ==
    \A i \in 1..Len(remote_index) : remote_index[i] # "None"

----------------------------------------------------------------------------
(* Properties of a labelled line with an empty value (SpecKeywords) *)

(* the attribute a label sets, and the inner state it opens *)
FieldOf(label) == CHOOSE f \in MetadataFields : << LabelOf(f) >> = label
InnerStateOf(f) ==
    CASE f = "citations" -> "CITATION"
      [] f = "abstract" -> "ABSTRACT"
      [] f = "keywords" -> "KEYWORDS"
      [] f = "parameters" -> "PARAMETERS"
      [] f = "size" -> "SIZE"
      [] f = "license" -> "LICENSE"
      [] f = "further_details" -> "FURTHER_DETAILS"

(* C20: in the description block a line made of a recognized label, a tab
   and an empty or blank value opens the label's field: the inner state
   becomes that field, the field takes the empty value, and no other field
   changes. *)
C20_EmptyValueOpensField ==
    [][LET raw == fs_lines[skiprows["t1"] + 1]
       IN  (/\ AboutToRead("t1", "DESCRIPTION")
            /\ Recognized(raw)
            /\ Strip(ValuePart(raw)) = << >>)
           => LET f == FieldOf(LabelPart(raw))
              IN  /\ description_state'["t1"] = InnerStateOf(f)
                  /\ FieldValue(ds', f) =
                        CASE f = "parameters" -> Some(Append(ds.parameters, << >>))
                          [] f = "keywords" -> Some(<< << >> >>)
                          [] OTHER -> Some(<< >>)
                  /\ \A g \in MetadataFields \ {f} :
                        FieldValue(ds', g) = FieldValue(ds, g)
      ]_vars

====
